---- MODULE Spec2Model ----
(***************************************************************************)
(* Model of the simulation engine of src/referee.py: Factory, Troop, Bomb  *)
(* and Game (__init__, initialize_factories, initialize_distances,         *)
(* send_troop, send_bomb, update, update_troops, update_bombs,             *)
(* resolve_bomb, resolve_battle).                                          *)
(***************************************************************************)
EXTENDS Integers, Sequences, FiniteSets, TLC

VARIABLES
    factories,    \* Game.factories: index -> [owner, cyborgs, production, production_disabled]
    troops,       \* Game.troops: the list of in-flight Troop objects, in list order
    bombs,        \* Game.bombs: the list of in-flight Bomb objects, in list order
    distances,    \* Game.distances: (f1, f2) -> distance, a partial map
    result,       \* outcome of the last call: "ok" or "ValueError"
    turn,         \* number of update() calls made so far
    battles,      \* the `battles` dict of the last update_troops(): dest -> arriving troops
    exploded,     \* the bombs handed to resolve_bomb by the last update_bombs()
    afterTroops,  \* Game.factories as update_troops() left them in the last update()
    afterBombs,   \* Game.factories as update_bombs() left them in the last update()
    quiet,        \* per factory: update() calls since a bomb resolved there with no arrival since, or -1
    e2e,          \* the troop sent last while nothing else was in flight, and what it met
    sent,         \* number of send_troop and send_bomb calls that did not raise
    pc,           \* position in Game.__init__, "done" once it has returned
    links,        \* the local set `links` of initialize_distances while it runs, else {}
    link_count    \* the link_count argument of Game(factory_count, link_count)

vars == <<factories, troops, bombs, distances, result, turn, battles, exploded,
          afterTroops, afterBombs, quiet, e2e, sent, pc, links, link_count>>

----------------------------------------------------------------------------
(* Bounds of the model *)

NumFactories == 3
\* update() calls of a run
MaxTurns == 21
\* send_troop / send_bomb calls are made before this many update() calls
MaxCmdTurn == 2
\* accepted send_troop / send_bomb calls of a run
MaxCmds == 2
\* link_count argument of Game(factory_count, link_count)
LinkCount == 1
\* largest distance drawn for a link (random.randint(1, 20) in the code)
MaxDist == 2
\* the calls counted after a bomb
MaxQuiet == 6
\* troops landing at one factory in one call, and the garrisons they meet, when the
\* Battle Resolver is exercised alone
MaxArrivals == 3
MaxGarrison == 3
\* garrisons met when the Bomb Resolver is exercised alone
MaxBombGarrison == 25

(* Program constants *)

FallbackDistance == 20
BombMinDestroyed == 10
BombDisabledTurns == 5
MaxProduction == 3

Neutral == 0
PlayerA == 1
PlayerB == 2

Factories == 0 .. (NumFactories - 1)
Owners == {Neutral, PlayerA, PlayerB}
\* The owners that issue commands
Players == {PlayerA, PlayerB}
ProductionRates == 0 .. MaxProduction

\* Values drawn for random.randint(15, 30) in initialize_factories
InitCyborgs == {15}
\* Values drawn for the two seeded factories' random.randint(0, 3)
InitProduction == {2}
\* num_cyborgs arguments tried by send_troop
Counts == {5, 16}
\* num_cyborgs of the troops met when the Battle Resolver is exercised alone
TroopSizes == {1, 3}

Max(a, b) == IF a >= b THEN a ELSE b

----------------------------------------------------------------------------
(* Topology *)

\* self.distances.get((source_factory, destination_factory), 20)
Distance(a, b) ==
    IF <<a, b>> \in DOMAIN distances THEN distances[<<a, b>>] ELSE FallbackDistance

UnorderedPairs == {p \in SUBSET Factories : Cardinality(p) = 2}

\* The dict initialize_distances leaves for a set of sampled pairs and their distances
DistancesOf(pairs, d) ==
    [k \in {<<a, b>> \in Factories \X Factories : {a, b} \in pairs /\ a # b}
        |-> d[{k[1], k[2]}]]

----------------------------------------------------------------------------
(* Battle Resolver *)

\* The `combatants` dict built from the arriving troops: one entry per owner, in the
\* order in which the owners first appear, each with the sum of its troops.
RECURSIVE Combatants(_)
Combatants(arriving) ==
    IF arriving = <<>> THEN <<>>
    ELSE LET prev == Combatants(SubSeq(arriving, 1, Len(arriving) - 1))
             t == arriving[Len(arriving)]
             idx == {i \in 1 .. Len(prev) : prev[i].owner = t.owner}
         IN  IF idx = {}
             THEN Append(prev, [owner |-> t.owner, cyborgs |-> t.num_cyborgs])
             ELSE [i \in 1 .. Len(prev) |->
                     IF i \in idx
                     THEN [prev[i] EXCEPT !.cyborgs = @ + t.num_cyborgs]
                     ELSE prev[i]]

\* One step of the stable descending sort: x is placed after every entry that is
\* at least as strong (entries of equal strength keep their dict order).
InsertDesc(x, s) ==
    LET k == Cardinality({i \in 1 .. Len(s) : s[i].cyborgs >= x.cyborgs})
    IN  SubSeq(s, 1, k) \o <<x>> \o SubSeq(s, k + 1, Len(s))

\* sorted(combatants.items(), key=lambda x: x[1], reverse=True)
RECURSIVE SortedCombatants(_)
SortedCombatants(c) ==
    IF c = <<>> THEN <<>>
    ELSE InsertDesc(c[Len(c)], SortedCombatants(SubSeq(c, 1, Len(c) - 1)))

RECURSIVE SumCyborgs(_)
SumCyborgs(c) == IF c = <<>> THEN 0 ELSE Head(c).cyborgs + SumCyborgs(Tail(c))

\* Faulty variant: the winner's strength is not floored at 0
NetCombatantsUnfloored(c) ==
    IF Len(c) > 1
    THEN LET sorted == SortedCombatants(c)
             winner == [owner |-> Head(sorted).owner,
                        cyborgs |-> Head(sorted).cyborgs - SumCyborgs(Tail(sorted))]
         IN  << winner >>
    ELSE c

\* Faulty variant: only the strictly weaker owners are subtracted from the winner
NetCombatantsStrictLosers(c) ==
    IF Len(c) > 1
    THEN LET sorted == SortedCombatants(c)
             Weaker(x) == x.cyborgs < Head(sorted).cyborgs
             winner_cyborgs == Head(sorted).cyborgs - SumCyborgs(SelectSeq(Tail(sorted), Weaker))
             winner == [owner |-> Head(sorted).owner, cyborgs |-> Max(0, winner_cyborgs)]
         IN  << winner >>
    ELSE c

\* The dict left by the fight between the arriving owners: with more than one owner
\* only the first of the sorted list remains, reduced by all the others, floored at 0.
NetCombatants(c) ==
    IF Len(c) > 1
    THEN LET sorted == SortedCombatants(c)
             winner_cyborgs == Head(sorted).cyborgs - SumCyborgs(Tail(sorted))
             winner == [owner |-> Head(sorted).owner, cyborgs |-> Max(0, winner_cyborgs)]
         IN  << winner >>
    ELSE c

\* max(combatants.values()) if combatants else 0
AttackingForce(c) ==
    IF c = <<>> THEN 0
    ELSE CHOOSE m \in {c[i].cyborgs : i \in 1 .. Len(c)} :
            \A i \in 1 .. Len(c) : c[i].cyborgs <= m

\* max(combatants, key=combatants.get): the first key holding the largest value
StrongestOwner(c) ==
    LET first == CHOOSE i \in 1 .. Len(c) :
                    /\ c[i].cyborgs = AttackingForce(c)
                    /\ \A j \in 1 .. (i - 1) : c[j].cyborgs # AttackingForce(c)
    IN  c[first].owner

\* Faulty variant: the attack also conquers when it only equals the garrison
BattleConquerOnTie(factory, c, new_production) ==
    LET mine == {i \in 1 .. Len(c) : c[i].owner = factory.owner}
    IN  IF mine # {}
        THEN [factory EXCEPT !.cyborgs = @ + c[CHOOSE i \in mine : TRUE].cyborgs]
        ELSE IF AttackingForce(c) >= factory.cyborgs
             THEN [factory EXCEPT !.owner = StrongestOwner(c),
                                  !.cyborgs = AttackingForce(c) - @,
                                  !.production = new_production]
             ELSE [factory EXCEPT !.cyborgs = @ - AttackingForce(c)]

\* Faulty variant: the comparison of attack and garrison is reversed
BattleConquerReversed(factory, c, new_production) ==
    LET mine == {i \in 1 .. Len(c) : c[i].owner = factory.owner}
    IN  IF mine # {}
        THEN [factory EXCEPT !.cyborgs = @ + c[CHOOSE i \in mine : TRUE].cyborgs]
        ELSE IF AttackingForce(c) < factory.cyborgs
             THEN [factory EXCEPT !.owner = StrongestOwner(c),
                                  !.cyborgs = AttackingForce(c) - @,
                                  !.production = new_production]
             ELSE [factory EXCEPT !.cyborgs = @ - AttackingForce(c)]

\* The battle with the factory's defenders; new_production is the value of the
\* random.randint(0, 3) drawn on a conquest.
BattleWithDefenders(factory, c, new_production) ==
    LET mine == {i \in 1 .. Len(c) : c[i].owner = factory.owner}
    IN  IF mine # {}
        THEN [factory EXCEPT !.cyborgs = @ + c[CHOOSE i \in mine : TRUE].cyborgs]
        ELSE IF AttackingForce(c) > factory.cyborgs
             THEN [factory EXCEPT !.owner = StrongestOwner(c),
                                  !.cyborgs = AttackingForce(c) - @,
                                  !.production = new_production]
             ELSE [factory EXCEPT !.cyborgs = @ - AttackingForce(c)]

\* Game.resolve_battle on one factory
ResolveBattle(factory, arriving_troops, new_production) ==
    BattleWithDefenders(factory, NetCombatants(Combatants(arriving_troops)), new_production)

\* Whether resolve_battle takes its conquest branch (and draws a production rate)
Conquers(factory, arriving_troops) ==
    LET c == NetCombatants(Combatants(arriving_troops))
    IN  /\ \A i \in 1 .. Len(c) : c[i].owner # factory.owner
        /\ AttackingForce(c) > factory.cyborgs

----------------------------------------------------------------------------
(* Bomb Resolver *)

\* Faulty variant: the garrison is floored at 0
ResolveBombFloored(factory) ==
    [factory EXCEPT !.cyborgs = Max(0, @ - Max(BombMinDestroyed, @ \div 2)),
                    !.production_disabled = BombDisabledTurns]

\* Faulty variant: the disabled turns are added to the counter
ResolveBombAdditive(factory) ==
    [factory EXCEPT !.cyborgs = @ - Max(BombMinDestroyed, @ \div 2),
                    !.production_disabled = @ + BombDisabledTurns]

\* Faulty variant: a bombed factory is also abandoned by its owner
ResolveBombAbandoned(factory) ==
    [factory EXCEPT !.cyborgs = @ - Max(BombMinDestroyed, @ \div 2),
                    !.production_disabled = BombDisabledTurns,
                    !.owner = Neutral]

\* Game.resolve_bomb on the destination factory
ResolveBomb(factory) ==
    [factory EXCEPT !.cyborgs = @ - Max(BombMinDestroyed, @ \div 2),
                    !.production_disabled = BombDisabledTurns]

\* The resolve_bomb calls of one update_bombs(), in list order
RECURSIVE ResolveBombs(_, _)
ResolveBombs(fs, arrived) ==
    IF arrived = <<>> THEN fs
    ELSE ResolveBombs([fs EXCEPT ![Head(arrived).destination_factory] = ResolveBomb(@)],
                      Tail(arrived))

----------------------------------------------------------------------------
(* Production *)

\* Faulty variant: one cyborg is produced whatever the production rate
ProduceOne(factory) ==
    IF factory.owner # Neutral /\ factory.production_disabled = 0
    THEN [factory EXCEPT !.cyborgs = @ + 1]
    ELSE IF factory.production_disabled > 0
         THEN [factory EXCEPT !.production_disabled = @ - 1]
         ELSE factory

\* Faulty variant: a disabled factory of a player still produces
ProduceWhileDisabled(factory) ==
    IF factory.owner # Neutral
    THEN [factory EXCEPT !.cyborgs = @ + factory.production,
                         !.production_disabled = Max(0, @ - 1)]
    ELSE IF factory.production_disabled > 0
         THEN [factory EXCEPT !.production_disabled = @ - 1]
         ELSE factory

\* The body of the production loop of Game.update for one factory
Produce(factory) ==
    IF factory.owner # Neutral /\ factory.production_disabled = 0
    THEN [factory EXCEPT !.cyborgs = @ + factory.production]
    ELSE IF factory.production_disabled > 0
         THEN [factory EXCEPT !.production_disabled = @ - 1]
         ELSE factory

----------------------------------------------------------------------------
(* Initial state: Game.__init__ *)

NoE2E ==
    [active |-> FALSE, sender |-> Neutral, count |-> 0, source |-> 0, dest |-> 0,
     defender |-> Neutral, garrison |-> 0, disabled |-> 0, calls |-> 0]

\* Factory(0, random.randint(15, 30)) for every index, then the two seeded owners
InitialFactories(c, p) ==
    [f \in Factories |->
        [owner |-> IF f = 0 THEN PlayerA ELSE IF f = 1 THEN PlayerB ELSE Neutral,
         cyborgs |-> c[f],
         production |-> IF f \in {0, 1} THEN p[f] ELSE 0,
         production_disabled |-> 0]]

\* The sets of unordered pairs the sampling loop of initialize_distances can end with:
\* it runs until `links` holds 2 * link_count pairs.
LinkSets == {l \in SUBSET UnorderedPairs : Cardinality(l) = 2 * LinkCount}

Init ==
    /\ \E c \in [Factories -> InitCyborgs], p \in [{0, 1} -> InitProduction] :
          factories = InitialFactories(c, p)
    /\ \E pairs \in LinkSets : \E d \in [pairs -> 1 .. MaxDist] :
          distances = DistancesOf(pairs, d)
    /\ troops = <<>>
    /\ bombs = <<>>
    /\ result = "ok"
    /\ turn = 0
    /\ battles = [f \in Factories |-> <<>>]
    /\ exploded = <<>>
    /\ afterTroops = factories
    /\ afterBombs = factories
    /\ quiet = [f \in Factories |-> -1]
    /\ e2e = NoE2E
    /\ sent = 0
    /\ pc = "done"
    /\ links = {}
    /\ link_count = LinkCount

----------------------------------------------------------------------------
(* Command Interface *)

\* Faulty variant: only a Neutral source is refused
OwnershipViolationNeutralOnly(owner, source_factory) ==
    factories[source_factory].owner = Neutral

\* The ownership check of send_troop and send_bomb
OwnershipViolation(owner, source_factory) ==
    factories[source_factory].owner # owner

\* Faulty variant: source and destination are passed in the wrong order
NewTroopSwapped(owner, num_cyborgs, source_factory, destination_factory) ==
    [owner |-> owner, num_cyborgs |-> num_cyborgs,
     source_factory |-> destination_factory, destination_factory |-> source_factory,
     travel_time |-> Distance(source_factory, destination_factory), age |-> 0]

\* Troop(owner, num_cyborgs, source_factory, destination_factory, travel_time)
NewTroop(owner, num_cyborgs, source_factory, destination_factory) ==
    [owner |-> owner, num_cyborgs |-> num_cyborgs,
     source_factory |-> source_factory, destination_factory |-> destination_factory,
     travel_time |-> Distance(source_factory, destination_factory), age |-> 0]

\* Faulty variant: the fallback distance is not applied to a bomb
NewBombNoFallback(owner, source_factory, destination_factory) ==
    [owner |-> owner,
     source_factory |-> source_factory, destination_factory |-> destination_factory,
     travel_time |-> IF <<source_factory, destination_factory>> \in DOMAIN distances
                     THEN distances[<<source_factory, destination_factory>>] ELSE 0,
     age |-> 0]

\* Bomb(owner, source_factory, destination_factory, travel_time)
NewBomb(owner, source_factory, destination_factory) ==
    [owner |-> owner,
     source_factory |-> source_factory, destination_factory |-> destination_factory,
     travel_time |-> Distance(source_factory, destination_factory), age |-> 0]

\* What the troop sent by this call meets, when it is the only thing in flight
Scenario(owner, num_cyborgs, source_factory, destination_factory) ==
    IF troops = <<>> /\ bombs = <<>> /\ source_factory # destination_factory
    THEN [active |-> TRUE, sender |-> owner, count |-> num_cyborgs,
          source |-> source_factory, dest |-> destination_factory,
          defender |-> factories[destination_factory].owner,
          garrison |-> factories[destination_factory].cyborgs,
          disabled |-> factories[destination_factory].production_disabled,
          calls |-> 0]
    ELSE NoE2E

\* Game.send_troop
SendTroop(owner, num_cyborgs, source_factory, destination_factory) ==
    /\ turn < MaxCmdTurn
    /\ \/ /\ OwnershipViolation(owner, source_factory)
          /\ result' = "ValueError"
          /\ UNCHANGED <<factories, troops, bombs, e2e, sent>>
       \/ /\ ~OwnershipViolation(owner, source_factory)
          /\ sent < MaxCmds
          /\ troops' = Append(troops,
                 NewTroop(owner, num_cyborgs, source_factory, destination_factory))
          /\ factories' = [factories EXCEPT ![source_factory].cyborgs = @ - num_cyborgs]
          /\ result' = "ok"
          /\ e2e' = Scenario(owner, num_cyborgs, source_factory, destination_factory)
          /\ sent' = sent + 1
          /\ UNCHANGED bombs
    /\ UNCHANGED <<distances, turn, battles, exploded, afterTroops, afterBombs, quiet,
                   pc, links, link_count>>

\* Game.send_bomb
SendBomb(owner, source_factory, destination_factory) ==
    /\ turn < MaxCmdTurn
    /\ \/ /\ OwnershipViolation(owner, source_factory)
          /\ result' = "ValueError"
          /\ UNCHANGED <<bombs, e2e, sent>>
       \/ /\ ~OwnershipViolation(owner, source_factory)
          /\ sent < MaxCmds
          /\ bombs' = Append(bombs, NewBomb(owner, source_factory, destination_factory))
          /\ result' = "ok"
          /\ e2e' = NoE2E
          /\ sent' = sent + 1
    /\ UNCHANGED <<factories, troops, distances, turn, battles, exploded,
                   afterTroops, afterBombs, quiet, pc, links, link_count>>

----------------------------------------------------------------------------
(* Turn Engine *)

\* travel_time -= 1 on every element of a copy of the list
Moved(list) ==
    [i \in 1 .. Len(list) |-> [list[i] EXCEPT !.travel_time = @ - 1, !.age = @ + 1]]

\* Faulty variant: an entity lands one call early
LandedEarly(x) == x.travel_time <= 1

\* if troop.travel_time == 0 / if bomb.travel_time == 0
Landed(x) == x.travel_time = 0
StillInFlight(x) == ~Landed(x)

\* battles[dest] of update_troops: the troops that reached 0, in list order
BattleGroup(list, dest) ==
    LET AtDest(t) == Landed(t) /\ t.destination_factory = dest
    IN  SelectSeq(Moved(list), AtDest)

\* The factories after the resolve_battle calls of update_troops; new_production[f]
\* is the rate drawn if factory f is conquered.
AfterBattles(fs, groups, new_production) ==
    [f \in Factories |->
        IF groups[f] = <<>> THEN fs[f]
        ELSE ResolveBattle(fs[f], groups[f],
                           IF f \in DOMAIN new_production THEN new_production[f] ELSE 0)]

\* The count of update() calls since a bomb resolved at f, with no arrival since
NextQuiet(q, group, bombed) ==
    IF bombed THEN 0
    ELSE IF group # <<>> THEN -1
    ELSE IF q >= 0 /\ q < MaxQuiet THEN q + 1
    ELSE -1

\* Faulty variant: the bombs are resolved before the battles
UpdateBombsFirst ==
    /\ turn < MaxTurns
    /\ LET groups == [f \in Factories |-> BattleGroup(troops, f)]
           arrived == SelectSeq(Moved(bombs), Landed)
           bombed == ResolveBombs(factories, arrived)
           conquered == {f \in Factories :
                            groups[f] # <<>> /\ Conquers(bombed[f], groups[f])}
       IN  \E new_production \in [conquered -> ProductionRates] :
              LET fought == AfterBattles(bombed, groups, new_production)
              IN  /\ troops' = SelectSeq(Moved(troops), StillInFlight)
                  /\ bombs' = SelectSeq(Moved(bombs), StillInFlight)
                  /\ battles' = groups
                  /\ exploded' = arrived
                  /\ afterTroops' = fought
                  /\ afterBombs' = bombed
                  /\ factories' = [f \in Factories |-> Produce(fought[f])]
                  /\ quiet' = [f \in Factories |->
                        NextQuiet(quiet[f], groups[f],
                            \E i \in 1 .. Len(arrived) : arrived[i].destination_factory = f)]
    /\ e2e' = IF e2e.active /\ e2e.calls < Distance(e2e.source, e2e.dest)
              THEN [e2e EXCEPT !.calls = @ + 1]
              ELSE NoE2E
    /\ turn' = turn + 1
    /\ result' = "ok"
    /\ UNCHANGED <<distances, sent, pc, links, link_count>>

\* Game.update
Update ==
    /\ turn < MaxTurns
    /\ LET groups == [f \in Factories |-> BattleGroup(troops, f)]
           conquered == {f \in Factories :
                            groups[f] # <<>> /\ Conquers(factories[f], groups[f])}
           arrived == SelectSeq(Moved(bombs), Landed)
       IN  \E new_production \in [conquered -> ProductionRates] :
              LET fought == AfterBattles(factories, groups, new_production)
                  bombed == ResolveBombs(fought, arrived)
              IN  /\ troops' = SelectSeq(Moved(troops), StillInFlight)
                  /\ bombs' = SelectSeq(Moved(bombs), StillInFlight)
                  /\ battles' = groups
                  /\ exploded' = arrived
                  /\ afterTroops' = fought
                  /\ afterBombs' = bombed
                  /\ factories' = [f \in Factories |-> Produce(bombed[f])]
                  /\ quiet' = [f \in Factories |->
                        NextQuiet(quiet[f], groups[f],
                            \E i \in 1 .. Len(arrived) : arrived[i].destination_factory = f)]
    /\ e2e' = IF e2e.active /\ e2e.calls < Distance(e2e.source, e2e.dest)
              THEN [e2e EXCEPT !.calls = @ + 1]
              ELSE NoE2E
    /\ turn' = turn + 1
    /\ result' = "ok"
    /\ UNCHANGED <<distances, sent, pc, links, link_count>>

\* Game.update_troops called on its own
UpdateTroops ==
    /\ troops # <<>>
    /\ LET groups == [f \in Factories |-> BattleGroup(troops, f)]
           conquered == {f \in Factories :
                            groups[f] # <<>> /\ Conquers(factories[f], groups[f])}
       IN  \E new_production \in [conquered -> ProductionRates] :
              /\ factories' = AfterBattles(factories, groups, new_production)
              /\ battles' = groups
    /\ troops' = SelectSeq(Moved(troops), StillInFlight)
    /\ UNCHANGED <<bombs, distances, result, turn, exploded, afterTroops, afterBombs,
                   quiet, e2e, sent, pc, links, link_count>>

\* Game.update_bombs called on its own
UpdateBombs ==
    /\ bombs # <<>>
    /\ factories' = ResolveBombs(factories, SelectSeq(Moved(bombs), Landed))
    /\ exploded' = SelectSeq(Moved(bombs), Landed)
    /\ bombs' = SelectSeq(Moved(bombs), StillInFlight)
    /\ UNCHANGED <<troops, distances, result, turn, battles, afterTroops, afterBombs,
                   quiet, e2e, sent, pc, links, link_count>>

----------------------------------------------------------------------------

Next ==
    \/ \E owner \in Players, num_cyborgs \in Counts, s \in Factories, d \in Factories :
          SendTroop(owner, num_cyborgs, s, d)
    \/ \E owner \in Players, s \in Factories, d \in Factories :
          SendBomb(owner, s, d)
    \/ Update

Spec == Init /\ [][Next]_vars

----------------------------------------------------------------------------
(* The resolvers on their own: any factory, met by any small group of troops     *)
(* about to land, or by a bomb about to land.                                    *)

AnyFactory(garrisons, disabled) ==
    [owner : Owners, cyborgs : garrisons, production : {0, MaxProduction},
     production_disabled : disabled]

\* The factories of a game with one factory, dest, replaced
FactoriesWith(dest, factory) ==
    [f \in Factories |->
        IF f = dest THEN factory
        ELSE [owner |-> IF f = 0 THEN PlayerA ELSE IF f = 1 THEN PlayerB ELSE Neutral,
              cyborgs |-> 15, production |-> 0, production_disabled |-> 0]]

\* A troop one call away from dest
LandingTroop(owner, num_cyborgs, dest) ==
    [owner |-> owner, num_cyborgs |-> num_cyborgs, source_factory |-> 0,
     destination_factory |-> dest, travel_time |-> 1, age |-> FallbackDistance - 1]

LandingGroups(dest) ==
    UNION {[1 .. n -> {LandingTroop(o, k, dest) : o \in Owners, k \in TroopSizes}] :
              n \in 1 .. MaxArrivals}

InitRest ==
    /\ distances = << >>
    /\ result = "ok"
    /\ turn = 0
    /\ battles = [f \in Factories |-> <<>>]
    /\ exploded = <<>>
    /\ afterTroops = factories
    /\ afterBombs = factories
    /\ quiet = [f \in Factories |-> -1]
    /\ e2e = NoE2E
    /\ sent = 0
    /\ pc = "done"
    /\ links = {}
    /\ link_count = 0

InitBattle ==
    /\ \E dest \in {NumFactories - 1} :
          /\ \E factory \in AnyFactory(-1 .. MaxGarrison, {3}) :
                factories = FactoriesWith(dest, factory)
          /\ troops \in LandingGroups(dest)
    /\ bombs = <<>>
    /\ InitRest

NextBattle == UpdateTroops

SpecBattle == InitBattle /\ [][NextBattle]_vars

InitBomb ==
    /\ \E dest \in Factories :
          /\ \E factory \in AnyFactory(-3 .. MaxBombGarrison, {0, 3}) :
                factories = FactoriesWith(dest, factory)
          /\ bombs = << [owner |-> PlayerA, source_factory |-> 0, destination_factory |-> dest,
                         travel_time |-> 1, age |-> FallbackDistance - 1] >>
    /\ troops = <<>>
    /\ InitRest

NextBomb == UpdateBombs

SpecBomb == InitBomb /\ [][NextBomb]_vars

----------------------------------------------------------------------------
(* Command validation *)

\* C1: a send_troop or send_bomb call whose owner differs from the owner of the
\* source factory raises the ownership error and leaves the factories, the in-flight
\* troops and the in-flight bombs exactly as they were.
C1_RejectedCommandChangesNothing ==
    [][\A owner \in Owners, s \in Factories :
          (/\ factories[s].owner # owner
           /\ \/ \E n \in Counts, d \in Factories : SendTroop(owner, n, s, d)
              \/ \E d \in Factories : SendBomb(owner, s, d))
          => (/\ result' = "ValueError"
              /\ factories' = factories
              /\ troops' = troops
              /\ bombs' = bombs)]_vars

\* A call was rejected after factory 0 had been conquered by PlayerB, with a troop
\* still in flight.
C1_Witness ==
    /\ result = "ValueError"
    /\ factories[0].owner = PlayerB
    /\ troops # <<>>

\* C10: an accepted send_troop call appends exactly one troop (owner, count, source,
\* destination, travel time = stored distance or 20) to the in-flight list, takes
\* exactly count cyborgs from the source factory, even below 0, and changes nothing else.
C10_SendTroopEffect ==
    [][\A owner \in Owners, n \in Counts, s \in Factories, d \in Factories :
          (factories[s].owner = owner /\ SendTroop(owner, n, s, d))
          => (/\ troops' = Append(troops,
                     [owner |-> owner, num_cyborgs |-> n, source_factory |-> s,
                      destination_factory |-> d, age |-> 0,
                      travel_time |-> IF <<s, d>> \in DOMAIN distances
                                      THEN distances[<<s, d>>] ELSE 20])
              /\ factories' = [f \in Factories |->
                     IF f = s
                     THEN [owner |-> factories[s].owner,
                           cyborgs |-> factories[s].cyborgs - n,
                           production |-> factories[s].production,
                           production_disabled |-> factories[s].production_disabled]
                     ELSE factories[f]]
              /\ bombs' = bombs
              /\ distances' = distances
              /\ result' = "ok")]_vars

\* Two troops were sent before the first update() and the source of one went below 0.
C10_Witness ==
    /\ turn = 0
    /\ Len(troops) = 2
    /\ \E f \in Factories : factories[f].cyborgs < 0

----------------------------------------------------------------------------
(* Battle Resolver and Bomb Resolver *)

RECURSIVE SumCounts(_)
SumCounts(group) ==
    IF group = <<>> THEN 0 ELSE Head(group).num_cyborgs + SumCounts(Tail(group))

\* The troops of one owner in a battle group, and the owners present
TroopsOf(group, a) == LET Mine(t) == t.owner = a IN SelectSeq(group, Mine)
OwnersIn(group) == {group[i].owner : i \in 1 .. Len(group)}

\* The three outcomes of one net combatant (a, s) meeting a factory: reinforcement,
\* conquest with production rate p, or repulsion.
Expected(factory, a, s, p) ==
    IF a = factory.owner
    THEN [owner |-> factory.owner, cyborgs |-> factory.cyborgs + s,
          production |-> factory.production,
          production_disabled |-> factory.production_disabled]
    ELSE IF s > factory.cyborgs
    THEN [owner |-> a, cyborgs |-> s - factory.cyborgs, production |-> p,
          production_disabled |-> factory.production_disabled]
    ELSE [owner |-> factory.owner, cyborgs |-> factory.cyborgs - s,
          production |-> factory.production,
          production_disabled |-> factory.production_disabled]

\* C4: troops of a single owner a, s cyborgs in all, landing at a factory (o, c):
\* a = o adds s; otherwise s > c makes a the owner with s - c cyborgs and some
\* production rate in 0..3, the disabled counter unchanged; otherwise c - s cyborgs
\* remain and nothing else changes.
C4_SingleCombatant ==
    [][\A f \in Factories :
          (battles'[f] # <<>> /\ troops' # troops /\ Cardinality(OwnersIn(battles'[f])) = 1)
          => \E p \in 0 .. 3 :
                factories'[f] = Expected(factories[f], battles'[f][1].owner,
                                         SumCounts(battles'[f]), p)]_vars

\* A factory was conquered by the troops of a single owner and given a positive rate.
C4_Witness ==
    \E f \in Factories :
        /\ battles[f] # <<>>
        /\ Cardinality(OwnersIn(battles[f])) = 1
        /\ factories[f].owner = battles[f][1].owner
        /\ afterBombs[f].owner # factories[f].owner
        /\ factories[f].cyborgs = SumCounts(battles[f]) - afterBombs[f].cyborgs
        /\ factories[f].production > 0

\* The strength left to the strongest of several owners
SurvivorStrength(group) ==
    LET totals == [a \in OwnersIn(group) |-> SumCounts(TroopsOf(group, a))]
        top == CHOOSE m \in {totals[a] : a \in OwnersIn(group)} :
                  \A a \in OwnersIn(group) : totals[a] <= m
    IN  Max(0, top - (SumCounts(group) - top))

Strongest(group) ==
    {a \in OwnersIn(group) :
        \A b \in OwnersIn(group) :
            SumCounts(TroopsOf(group, b)) <= SumCounts(TroopsOf(group, a))}

\* C5: troops of several owners landing at one factory are summed per owner; only an
\* owner with the largest sum survives, with max(0, largest sum - sum of all the
\* others), and that survivor alone meets the factory, also when the factory's owner
\* was among the beaten. {A:7, B:10} at a Neutral factory of 3 leaves it Neutral at 0.
C5_MultiOwnerBattle ==
    /\ [][\A f \in Factories :
            (battles'[f] # <<>> /\ troops' # troops
                /\ Cardinality(OwnersIn(battles'[f])) > 1)
            => \E a \in Strongest(battles'[f]), p \in 0 .. 3 :
                  factories'[f] = Expected(factories[f], a,
                                           SurvivorStrength(battles'[f]), p)]_vars
    /\ ResolveBattle([owner |-> Neutral, cyborgs |-> 3, production |-> 0,
                      production_disabled |-> 0],
                     << [owner |-> PlayerA, num_cyborgs |-> 7],
                        [owner |-> PlayerB, num_cyborgs |-> 10] >>, 1)
          = [owner |-> Neutral, cyborgs |-> 0, production |-> 0, production_disabled |-> 0]

\* The factory's owner arrived, was beaten by a stronger owner, and the survivor
\* then took cyborgs from the garrison.
C5_Witness ==
    \E f \in Factories :
        /\ Cardinality(OwnersIn(battles[f])) = 3
        /\ Len(battles[f]) = 3
        /\ afterBombs[f].owner \in OwnersIn(battles[f])
        /\ afterBombs[f].owner \notin Strongest(battles[f])
        /\ SurvivorStrength(battles[f]) > 0
        /\ factories[f].cyborgs = afterBombs[f].cyborgs - SurvivorStrength(battles[f])
        /\ factories[f].owner = afterBombs[f].owner

\* C6: a bomb landing at a factory of c cyborgs leaves c - max(10, floor(c / 2)),
\* also below 0, sets the disabled counter to 5 whatever it was, and changes neither
\* the owner, nor the production rate, nor any other factory.
C6_BombEffect ==
    [][(exploded' # <<>> /\ bombs' # bombs /\ Len(exploded') = 1)
        => LET f == exploded'[1].destination_factory
               c == factories[f].cyborgs
               m == IF c < 0 THEN -c ELSE c
               half == CHOOSE h \in -m - 1 .. m + 1 : 2 * h <= c /\ c < 2 * h + 2
           IN  /\ factories'[f].cyborgs = c - (IF half > 10 THEN half ELSE 10)
               /\ (c < 10 => factories'[f].cyborgs < 0)
               /\ factories'[f].production_disabled = 5
               /\ factories'[f].owner = factories[f].owner
               /\ factories'[f].production = factories[f].production
               /\ \A g \in Factories \ {f} : factories'[g] = factories[g]]_vars

\* A bomb took 12 cyborgs, half the garrison, from a factory that was already
\* disabled for 3 more calls, and reset its counter to 5.
C6_Witness ==
    \E f \in Factories :
        /\ Len(exploded) = 1
        /\ exploded[1].destination_factory = f
        /\ afterBombs[f].production_disabled = 3
        /\ factories[f].production_disabled = 5
        /\ afterBombs[f].cyborgs - factories[f].cyborgs = 12

----------------------------------------------------------------------------
(* Turn pipeline *)

\* C2 as stated: a factory conquered in the battle phase of an update() call gets no
\* cyborgs from its new production rate in the production phase of that call.
C2_NoProductionInConquestTurn ==
    [][\A f \in Factories :
          (turn' = turn + 1 /\ afterTroops'[f].owner # factories[f].owner)
          => factories'[f].cyborgs = afterBombs'[f].cyborgs]_vars

\* C2 amended: the production phase treats a factory conquered by a player in the
\* same call like every other player-owned factory: when its disabled counter is 0
\* after the bomb phase it receives its newly drawn production rate in that very call,
\* otherwise the counter is decremented and nothing is added.
C2_ProductionInConquestTurn ==
    [][\A f \in Factories :
          (/\ turn' = turn + 1
           /\ afterTroops'[f].owner # factories[f].owner
           /\ afterTroops'[f].owner \in Players)
          => /\ factories'[f].owner = afterTroops'[f].owner
             /\ factories'[f].production = afterTroops'[f].production
             /\ IF afterBombs'[f].production_disabled = 0
                THEN /\ factories'[f].cyborgs =
                           afterBombs'[f].cyborgs + afterTroops'[f].production
                     /\ factories'[f].production_disabled = 0
                ELSE /\ factories'[f].cyborgs = afterBombs'[f].cyborgs
                     /\ factories'[f].production_disabled =
                           afterBombs'[f].production_disabled - 1]_vars

\* The first update() call conquered a neutral factory, whose new rate was added to
\* what the battle left of the attackers.
C2_Witness ==
    \E f \in Factories \ {0, 1} :
        /\ turn = 1
        /\ afterTroops[f].owner \in Players
        /\ exploded = <<>>
        /\ factories[f].production > 0
        /\ factories[f].cyborgs = afterTroops[f].cyborgs + factories[f].production

\* C3 as stated: after the call in which a bomb resolved at a player-owned factory,
\* the next 5 calls add nothing to it while the counter counts down to 0, and the 6th
\* call adds its production again.
C3_FiveQuietCalls ==
    [][\A f \in Factories :
          (/\ turn' = turn + 1
           /\ factories[f].owner # Neutral
           /\ quiet[f] >= 0
           /\ quiet'[f] = quiet[f] + 1)
          => /\ quiet'[f] <= 5 =>
                   /\ factories'[f].cyborgs = factories[f].cyborgs
                   /\ factories'[f].production_disabled =
                         factories[f].production_disabled - 1
             /\ quiet'[f] = 5 => factories'[f].production_disabled = 0
             /\ quiet'[f] = 6 =>
                   factories'[f].cyborgs = factories[f].cyborgs + factories[f].production]_vars

\* C3 amended: the call in which the bomb resolves is itself the first of the 5
\* calls without production: it leaves the counter at 4; the next 4 calls add nothing
\* while the counter counts down to 0, and the 5th call adds production again.
C3_FourQuietCalls ==
    [][\A f \in Factories :
          /\ (turn' = turn + 1 /\ quiet'[f] = 0 /\ factories'[f].owner # Neutral)
             => /\ factories'[f].production_disabled = 4
                /\ factories'[f].cyborgs = afterBombs'[f].cyborgs
          /\ (/\ turn' = turn + 1
              /\ factories[f].owner # Neutral
              /\ quiet[f] >= 0
              /\ quiet'[f] = quiet[f] + 1)
             => /\ factories'[f].owner = factories[f].owner
                /\ factories'[f].production = factories[f].production
                /\ quiet'[f] <= 4 =>
                      /\ factories'[f].cyborgs = factories[f].cyborgs
                      /\ factories'[f].production_disabled =
                            factories[f].production_disabled - 1
                /\ quiet'[f] = 4 => factories'[f].production_disabled = 0
                /\ quiet'[f] >= 5 =>
                      /\ factories'[f].cyborgs =
                            factories[f].cyborgs + factories[f].production
                      /\ factories'[f].production_disabled = 0]_vars

\* Five calls after a bomb resolved at a producing player-owned factory, nothing
\* else having arrived there.
C3_Witness ==
    \E f \in Factories :
        /\ factories[f].owner # Neutral
        /\ factories[f].production > 0
        /\ quiet[f] = 5

\* C7: every Neutral factory has production 0 and disabled counter 0.
C7_NeutralIdle ==
    \A f \in Factories :
        factories[f].owner = Neutral
        => factories[f].production = 0 /\ factories[f].production_disabled = 0

\* The travel time an entity is created with
TotalTravel(x) ==
    IF <<x.source_factory, x.destination_factory>> \in DOMAIN distances
    THEN distances[<<x.source_factory, x.destination_factory>>]
    ELSE 20

\* x after one more call
Aged(x) == [x EXCEPT !.age = @ + 1, !.travel_time = @ - 1]

OnTheWay(list) ==
    \A i \in 1 .. Len(list) :
        /\ list[i].age >= 0
        /\ list[i].age < TotalTravel(list[i])
        /\ list[i].travel_time = TotalTravel(list[i]) - list[i].age

JustLanded(list) ==
    \A i \in 1 .. Len(list) :
        list[i].age = TotalTravel(list[i]) /\ list[i].travel_time = 0

\* C8: a troop or bomb created with travel time d (stored distance, or 20) is in
\* flight after each of the next d - 1 update() calls and is removed and handed to the
\* resolver of its destination in exactly the d-th; nothing lands early, twice or never.
C8_LandsInCallD ==
    [][/\ OnTheWay(troops') /\ OnTheWay(bombs')
       /\ turn' = turn + 1 =>
             LET Early(x) == x.age + 1 < TotalTravel(x)
                 Due(x) == x.age + 1 = TotalTravel(x)
                 older(list) == [i \in 1 .. Len(list) |-> Aged(list[i])]
             IN  /\ troops' = older(SelectSeq(troops, Early))
                 /\ bombs' = older(SelectSeq(bombs, Early))
                 /\ exploded' = older(SelectSeq(bombs, Due))
                 /\ JustLanded(exploded')
                 /\ afterBombs' = ResolveBombs(afterTroops', exploded')
                 /\ \A f \in Factories :
                       LET DueAt(x) == Due(x) /\ x.destination_factory = f
                       IN  /\ battles'[f] = older(SelectSeq(troops, DueAt))
                           /\ JustLanded(battles'[f])
                           /\ battles'[f] = <<>> => afterTroops'[f] = factories[f]]_vars

\* A troop and a bomb sent where no link is stored both landed in the 20th call.
C8_Witness ==
    /\ turn = 20
    /\ exploded # <<>>
    /\ exploded[1].age = 20
    /\ \E f \in Factories : battles[f] # <<>> /\ battles[f][1].age = 20

\* C9 as stated: PlayerA sends s cyborgs over distance d to a factory of PlayerB
\* holding c >= s, nothing else is sent or in flight: after d update() calls the
\* factory is PlayerB's and holds exactly c - s.
C9_EndToEnd ==
    (/\ e2e.active
     /\ e2e.sender = PlayerA
     /\ e2e.defender = PlayerB
     /\ e2e.garrison >= e2e.count
     /\ e2e.calls = TotalTravel([source_factory |-> e2e.source,
                                 destination_factory |-> e2e.dest]))
    => /\ factories[e2e.dest].owner = PlayerB
       /\ factories[e2e.dest].cyborgs = e2e.garrison - e2e.count

\* C9 amended: the factory is PlayerB's and holds c - s plus what it produced in the
\* d calls: its production rate for every call in which its disabled counter was 0,
\* that is c - s + production * max(0, d - k), k being the counter when the troop was
\* sent (c - s + d * production for a factory that is not disabled).
C9_EndToEndWithProduction ==
    (/\ e2e.active
     /\ e2e.sender = PlayerA
     /\ e2e.defender = PlayerB
     /\ e2e.garrison >= e2e.count
     /\ e2e.calls = TotalTravel([source_factory |-> e2e.source,
                                 destination_factory |-> e2e.dest]))
    => /\ factories[e2e.dest].owner = PlayerB
       /\ factories[e2e.dest].cyborgs =
             e2e.garrison - e2e.count
             + factories[e2e.dest].production * Max(0, e2e.calls - e2e.disabled)

\* The troop of PlayerA landed at a producing factory of PlayerB after 2 calls, and
\* at a disabled one.
C9_Witness ==
    /\ e2e.active
    /\ e2e.sender = PlayerA
    /\ e2e.defender = PlayerB
    /\ e2e.garrison >= e2e.count
    /\ e2e.calls = TotalTravel([source_factory |-> e2e.source,
                                destination_factory |-> e2e.dest])
    /\ e2e.calls = 2
    /\ e2e.disabled = 0
    /\ factories[e2e.dest].production > 0
    /\ battles[e2e.dest] # <<>>

----------------------------------------------------------------------------
(* Bombs are free *)

\* C11: an accepted send_bomb call appends exactly one bomb (owner, source,
\* destination, travel time = stored distance or 20) to the in-flight list and leaves
\* every factory, the source's cyborgs included, and every in-flight troop as they
\* were; a second bomb from the same source costs as little as the first.
C11_SendBombEffect ==
    [][\A owner \in Owners, s \in Factories, d \in Factories :
          (factories[s].owner = owner /\ SendBomb(owner, s, d))
          => (/\ bombs' = Append(bombs,
                     [owner |-> owner, source_factory |-> s, destination_factory |-> d,
                      age |-> 0,
                      travel_time |-> IF <<s, d>> \in DOMAIN distances
                                      THEN distances[<<s, d>>] ELSE 20])
              /\ Len(bombs') = Len(bombs) + 1
              /\ factories' = factories
              /\ troops' = troops
              /\ distances' = distances
              /\ result' = "ok")]_vars

\* Two bombs were sent from the same factory before the first update(), one of them
\* where no link is stored, and the source holds what it held at the start.
C11_Witness ==
    /\ turn = 0
    /\ Len(bombs) = 2
    /\ bombs[1].source_factory = bombs[2].source_factory
    /\ bombs[2].travel_time = 20
    /\ factories[bombs[1].source_factory].cyborgs = 15

----------------------------------------------------------------------------
(* Game.__init__ step by step: initialize_factories, then the sampling loop of   *)
(* initialize_distances.                                                         *)

\* Values drawn for random.randint(15, 30), random.randint(0, 3) and
\* random.randint(1, 20) when the constructor is exercised alone
CyborgDraws == {15, 30}
ProductionDraws == {0, MaxProduction}
DistanceDraws == {1, 20}

\* The link_count arguments for which that many unordered pairs of factories exist
LinkCountArgs == 1 .. ((NumFactories * (NumFactories - 1)) \div 2)

\* Faulty variant: a production rate is drawn for a Neutral factory too
NewFactoryAlwaysProducing(owner, cyborgs, rate) ==
    [owner |-> owner, cyborgs |-> cyborgs, production |-> rate, production_disabled |-> 0]

\* Factory(owner, cyborgs); rate is the value of its random.randint(0, 3).
\* production_disabled starts as False, which Python compares and counts as 0.
NewFactory(owner, cyborgs, rate) ==
    [owner |-> owner, cyborgs |-> cyborgs,
     production |-> IF owner # Neutral THEN rate ELSE 0,
     production_disabled |-> 0]

\* The state in which Game.__init__ enters initialize_factories
InitConstruct(args) ==
    /\ factories = << >>
    /\ troops = <<>>
    /\ bombs = <<>>
    /\ distances = << >>
    /\ links = {}
    /\ link_count \in args
    /\ pc = "initialize_factories"
    /\ result = "ok"
    /\ turn = 0
    /\ battles = [f \in Factories |-> <<>>]
    /\ exploded = <<>>
    /\ afterTroops = << >>
    /\ afterBombs = << >>
    /\ quiet = [f \in Factories |-> -1]
    /\ e2e = NoE2E
    /\ sent = 0

\* One iteration of `for _ in range(factory_count)`
AppendFactory(cyborgs, rate) ==
    LET k == Cardinality(DOMAIN factories)
    IN  /\ pc = "initialize_factories"
        /\ k < NumFactories
        /\ factories' = [f \in 0 .. k |->
                            IF f < k THEN factories[f] ELSE NewFactory(Neutral, cyborgs, rate)]
        /\ afterTroops' = factories'
        /\ afterBombs' = factories'
        /\ UNCHANGED <<troops, bombs, distances, result, turn, battles, exploded, quiet,
                       e2e, sent, pc, links, link_count>>

\* The two assignments that end initialize_factories
SeedPlayers(rate0, rate1) ==
    /\ pc = "initialize_factories"
    /\ Cardinality(DOMAIN factories) = NumFactories
    /\ factories' = [factories EXCEPT ![0].owner = PlayerA, ![0].production = rate0,
                                      ![1].owner = PlayerB, ![1].production = rate1]
    /\ afterTroops' = factories'
    /\ afterBombs' = factories'
    /\ pc' = "initialize_distances"
    /\ UNCHANGED <<troops, bombs, distances, result, turn, battles, exploded, quiet,
                   e2e, sent, links, link_count>>

\* The loop test of initialize_distances
Sampling == Cardinality(links) < 2 * link_count

\* Faulty variant: a pair already stored the other way round is sampled again
FreshPairOneWay(f1, f2) == <<f1, f2>> \notin links

\* if (f1, f2) not in links and (f2, f1) not in links
FreshPair(f1, f2) == <<f1, f2>> \notin links /\ <<f2, f1>> \notin links

\* One iteration of the sampling loop: f1, f2 = random.sample(range(factory_count), 2)
\* and, for a fresh pair, distance = random.randint(1, 20)
Sample(f1, f2, distance) ==
    /\ pc = "initialize_distances"
    /\ Sampling
    /\ f1 # f2
    /\ IF FreshPair(f1, f2)
       THEN /\ distances' = [k \in DOMAIN distances \cup {<<f1, f2>>, <<f2, f1>>} |->
                                IF k \in {<<f1, f2>>, <<f2, f1>>} THEN distance
                                ELSE distances[k]]
            /\ links' = links \cup {<<f1, f2>>}
       ELSE UNCHANGED <<distances, links>>
    /\ UNCHANGED <<factories, troops, bombs, result, turn, battles, exploded, afterTroops,
                   afterBombs, quiet, e2e, sent, pc, link_count>>

\* The loop test fails: initialize_distances and Game.__init__ return
ReturnFromInit ==
    /\ pc = "initialize_distances"
    /\ ~Sampling
    /\ pc' = "done"
    /\ links' = {}
    /\ UNCHANGED <<factories, troops, bombs, distances, result, turn, battles, exploded,
                   afterTroops, afterBombs, quiet, e2e, sent, link_count>>

\* The steps of Game.__init__, with the random draws taken from the given sets
Construct(cyborgs, rates, dists) ==
    \/ \E c \in cyborgs, r \in rates : AppendFactory(c, r)
    \/ \E r0 \in rates, r1 \in rates : SeedPlayers(r0, r1)
    \/ \E f1 \in Factories, f2 \in Factories, d \in dists : Sample(f1, f2, d)
    \/ ReturnFromInit

\* The constructor alone, Game(NumFactories, LinkCount)
InitInitialize == InitConstruct({LinkCount})
NextInitialize == Construct(CyborgDraws, ProductionDraws, DistanceDraws)
SpecInitialize == InitInitialize /\ [][NextInitialize]_vars

\* The constructor alone, for every link_count argument
InitTopology == InitConstruct(LinkCountArgs)
NextTopology == Construct(InitCyborgs, InitProduction, 1 .. MaxDist)
SpecTopology == InitTopology /\ [][NextTopology]_vars

\* The constructor keeps running, and random.sample keeps returning every pair
FairSampling ==
    /\ WF_vars(NextTopology)
    /\ \A f1 \in Factories, f2 \in Factories :
          SF_vars(\E d \in 1 .. MaxDist : Sample(f1, f2, d))
SpecTopologyFair == SpecTopology /\ FairSampling

\* The constructor, then the game
InitGame == InitConstruct({LinkCount})
NextGame ==
    \/ Construct(InitCyborgs, InitProduction, 1 .. MaxDist)
    \/ (pc = "done" /\ Next)
SpecGame == InitGame /\ [][NextGame]_vars

----------------------------------------------------------------------------
(* Topology construction *)

\* The unordered pairs of factories that have a stored distance
StoredPairs == {{k[1], k[2]} : k \in DOMAIN distances}

\* C12: when Game(n, L) has returned, exactly L unordered pairs of factories have a
\* stored distance, and every stored distance is in 1..20.
C12_StoresLinkCountPairs ==
    pc = "done"
    => /\ Cardinality(StoredPairs) = link_count
       /\ \A k \in DOMAIN distances : distances[k] \in 1 .. 20

\* C17: the constructor returns for every link_count argument L <= n(n-1)/2, when
\* random.sample keeps returning every pair of factories.
C17_ConstructionTerminates == <>(pc = "done")

\* C13: at every step of the construction and in every later state, every stored
\* link (a, b) has a # b and is also stored as (b, a) with the same distance; a stored
\* distance is never overwritten or dropped; and once the constructor has returned,
\* send_troop, send_bomb and update leave the topology as it is.
C13_TopologySymmetricAndFrozen ==
    /\ [](\A k \in DOMAIN distances :
             /\ k[1] # k[2]
             /\ <<k[2], k[1]>> \in DOMAIN distances
             /\ distances[<<k[2], k[1]>>] = distances[k])
    /\ [][/\ \A k \in DOMAIN distances :
                k \in DOMAIN distances' /\ distances'[k] = distances[k]
          /\ pc = "done" => distances' = distances]_vars

\* The links were sampled one after the other, the constructor returned, and a
\* troop sent over a stored link has landed.
C13_Witness ==
    /\ pc = "done"
    /\ Cardinality(StoredPairs) = 2
    /\ turn > 0
    /\ sent > 0
    /\ \E f \in Factories :
          /\ battles[f] # <<>>
          /\ <<battles[f][1].source_factory, f>> \in DOMAIN distances

----------------------------------------------------------------------------
(* Initial entities *)

\* C14: when Game(n, L), n >= 2, has returned: factory 0 is PlayerA's and factory 1
\* PlayerB's, each with a production rate in 0..3; every other factory is Neutral
\* with production 0; every factory holds 15..30 cyborgs and has disabled counter 0;
\* no troop and no bomb is in flight.
C14_InitialEntities ==
    pc = "done"
    => /\ DOMAIN factories = 0 .. (NumFactories - 1)
       /\ factories[0].owner = PlayerA
       /\ factories[1].owner = PlayerB
       /\ factories[0].production \in 0 .. 3
       /\ factories[1].production \in 0 .. 3
       /\ \A f \in DOMAIN factories \ {0, 1} :
             factories[f].owner = Neutral /\ factories[f].production = 0
       /\ \A f \in DOMAIN factories :
             /\ factories[f].cyborgs \in 15 .. 30
             /\ factories[f].production_disabled = 0
       /\ troops = <<>>
       /\ bombs = <<>>

\* The constructor returned with the largest rate drawn for PlayerA, the smallest
\* for PlayerB, and the extreme garrisons drawn for a Neutral and a seeded factory.
C14_Witness ==
    /\ pc = "done"
    /\ factories[0].production = 3
    /\ factories[1].production = 0
    /\ factories[0].cyborgs = 15
    /\ factories[NumFactories - 1].cyborgs = 30
    /\ distances # << >>

----------------------------------------------------------------------------
(* Phase order and production *)

\* floor(c / 2), also for a negative c
FloorHalf(c) ==
    LET m == IF c < 0 THEN -c ELSE c
    IN  CHOOSE h \in -m - 1 .. m + 1 : 2 * h <= c /\ c < 2 * h + 2

\* The number of bombs that landed at f in the last call
BombsAt(list, f) == Cardinality({i \in 1 .. Len(list) : list[i].destination_factory = f})

\* C15: when troops and one bomb reach the same factory in the same update() call,
\* the battle is resolved first, against the garrison the call started with; the bomb
\* then takes max(10, floor(c' / 2)) of the garrison c' the battle left and sets the
\* disabled counter to 5; the production phase of that call then adds no cyborgs.
C15_BattleThenBombThenProduction ==
    [][\A f \in Factories :
          (/\ turn' = turn + 1
           /\ battles'[f] # <<>>
           /\ BombsAt(exploded', f) = 1)
          => /\ \E a \in Strongest(battles'[f]), p \in 0 .. 3 :
                   afterTroops'[f] = Expected(factories[f], a,
                                              SurvivorStrength(battles'[f]), p)
             /\ afterBombs'[f].cyborgs =
                   afterTroops'[f].cyborgs
                   - (IF FloorHalf(afterTroops'[f].cyborgs) > 10
                      THEN FloorHalf(afterTroops'[f].cyborgs) ELSE 10)
             /\ afterBombs'[f].production_disabled = 5
             /\ afterBombs'[f].owner = afterTroops'[f].owner
             /\ afterBombs'[f].production = afterTroops'[f].production
             /\ factories'[f].cyborgs = afterBombs'[f].cyborgs
             /\ factories'[f].owner = afterBombs'[f].owner]_vars

\* A troop conquered a factory and a bomb landed there in the same call: the bomb
\* took 10 from the 1 cyborg the battle left, and the new rate produced nothing.
C15_Witness ==
    \E f \in Factories :
        /\ battles[f] # <<>>
        /\ BombsAt(exploded, f) = 1
        /\ afterTroops[f].owner = battles[f][1].owner
        /\ afterTroops[f].cyborgs = 1
        /\ afterTroops[f].production > 0
        /\ factories[f].cyborgs = -9
        /\ factories[f].production_disabled = 4

\* C16: the production phase of update() changes a non-Neutral factory in exactly
\* one way: with disabled counter 0 its cyborgs grow by its production rate and the
\* counter stays 0, otherwise the counter drops by 1 and the cyborgs stay; it leaves
\* the cyborgs, production rate and disabled counter of every Neutral factory as they
\* were, and changes no owner and no production rate.
C16_ProductionPhase ==
    [][turn' = turn + 1
        => \A f \in Factories :
              /\ factories'[f].owner = afterBombs'[f].owner
              /\ factories'[f].production = afterBombs'[f].production
              /\ IF afterBombs'[f].owner # Neutral
                 THEN IF afterBombs'[f].production_disabled = 0
                      THEN /\ factories'[f].cyborgs =
                                 afterBombs'[f].cyborgs + afterBombs'[f].production
                           /\ factories'[f].production_disabled = 0
                      ELSE /\ factories'[f].cyborgs = afterBombs'[f].cyborgs
                           /\ factories'[f].production_disabled =
                                 afterBombs'[f].production_disabled - 1
                 ELSE /\ factories'[f].cyborgs = afterBombs'[f].cyborgs
                      /\ factories'[f].production_disabled =
                            afterBombs'[f].production_disabled]_vars

----------------------------------------------------------------------------
(* Games without bombs in which no troop is larger than its source's garrison *)

\* send_troop called with 1 <= num_cyborgs <= the cyborgs of the source, or rejected
SendAffordableTroop(owner, num_cyborgs, source_factory, destination_factory) ==
    /\ \/ OwnershipViolation(owner, source_factory)
       \/ (1 <= num_cyborgs /\ num_cyborgs <= factories[source_factory].cyborgs)
    /\ SendTroop(owner, num_cyborgs, source_factory, destination_factory)

NextAffordable ==
    \/ \E owner \in Players, num_cyborgs \in Counts, s \in Factories, d \in Factories :
          SendAffordableTroop(owner, num_cyborgs, s, d)
    \/ Update

SpecAffordable == Init /\ [][NextAffordable]_vars

\* C18: when no bomb is sent and every accepted send_troop call has
\* 1 <= count <= cyborgs of its source at the time of the call, every factory holds
\* at least 0 cyborgs in every reachable state.
C18_CyborgsNeverNegative ==
    \A f \in Factories : factories[f].cyborgs >= 0

\* A Neutral factory has been conquered, and in the last call a troop was repelled
\* by a factory of the other player, which then produced.
C18_Witness ==
    /\ \E f \in Factories \ {0, 1} : factories[f].owner \in Players
    /\ \E f \in {0, 1} :
          /\ battles[f] # <<>>
          /\ afterTroops[f].owner # battles[f][1].owner
          /\ factories[f].cyborgs = afterTroops[f].cyborgs + factories[f].production

----------------------------------------------------------------------------
(* Ownership *)

\* C19: with commands issued by PlayerA and PlayerB only, the owner of a factory
\* changes only in the battle phase of update() and only to the owner of a troop
\* that landed there in that call; a factory owned by a player is therefore owned by
\* a player in every later state.
C19_OwnerChangesOnlyByConquest ==
    [][\A f \in Factories :
          /\ turn' = turn + 1
             => /\ afterBombs'[f].owner = afterTroops'[f].owner
                /\ factories'[f].owner = afterTroops'[f].owner
          /\ factories'[f].owner # factories[f].owner
             => /\ turn' = turn + 1
                /\ \E i \in 1 .. Len(battles'[f]) :
                      battles'[f][i].owner = factories'[f].owner
          /\ factories[f].owner \in {PlayerA, PlayerB}
             => factories'[f].owner \in {PlayerA, PlayerB}]_vars

\* Factory 0, PlayerA's at the start, was conquered by PlayerB and bombed, and is
\* still PlayerB's some calls later.
C19_Witness ==
    /\ factories[0].owner = PlayerB
    /\ factories[0].production_disabled \in 1 .. 3
    /\ factories[0].cyborgs < 0

----------------------------------------------------------------------------
(* Ties between the arriving owners *)

\* C20: when the troops of PlayerA and of PlayerB landing at a factory in the same
\* call have equal sums and the factory holds at least 0 cyborgs, the battle leaves
\* the factory's owner, cyborgs, production rate and disabled counter as they were,
\* whichever of the two comes first in the troop list.
C20_TieLeavesFactoryUnchanged ==
    [][\A f \in Factories :
          (/\ battles'[f] # <<>>
           /\ troops' # troops
           /\ OwnersIn(battles'[f]) = {PlayerA, PlayerB}
           /\ SumCounts(TroopsOf(battles'[f], PlayerA))
                 = SumCounts(TroopsOf(battles'[f], PlayerB))
           /\ factories[f].cyborgs >= 0)
          => /\ factories'[f].owner = factories[f].owner
             /\ factories'[f].cyborgs = factories[f].cyborgs
             /\ factories'[f].production = factories[f].production
             /\ factories'[f].production_disabled = factories[f].production_disabled]_vars

\* PlayerB's troops came first in the list and tied with PlayerA's at an empty
\* factory of PlayerA, which kept its owner and its 0 cyborgs.
C20_Witness ==
    \E f \in Factories :
        /\ OwnersIn(battles[f]) = {PlayerA, PlayerB}
        /\ battles[f][1].owner = PlayerB
        /\ battles[f][1].num_cyborgs = 3
        /\ SumCounts(TroopsOf(battles[f], PlayerA)) = SumCounts(TroopsOf(battles[f], PlayerB))
        /\ afterBombs[f].owner = PlayerA
        /\ afterBombs[f].cyborgs = 0
        /\ factories[f] = afterBombs[f]

====
